---- MODULE Spec2Model ----
(***************************************************************************)
(* Model of llama-rs/src/loader_common.rs: the FileType tag with its i32   *)
(* encoding, decoding and Display name; the LoadProgress events; the       *)
(* LoadError taxonomy and the absorption of FindAllModelFilesError.        *)
(*                                                                         *)
(* Strings that the properties inspect character by character (Display     *)
(* output, variant identifiers) are sequences of one-character strings.    *)
(***************************************************************************)
EXTENDS Integers, Sequences, FiniteSets, TLC

VARIABLES
    value,        \* FileType handed to i32::from / Display
    code,         \* i32 handed to FileType::try_from
    into,         \* result of i32::from(value), or None
    tried,        \* result of FileType::try_from(code), or None
    back,         \* result of FileType::try_from(i32::from(value)), or None
    shown,        \* text written by Display for value, or None
    dflt,         \* result of FileType::default(), or None
    errIn,        \* FindAllModelFilesError values raised by file discovery
    errOut,       \* LoadError each of them was converted into, or None
    pc,           \* position of the loading pipeline
    found,        \* outcome of file discovery
    ftype,        \* storage-format integer of the header
    decoded,      \* result of decoding ftype, or None
    file_type,    \* FileType of the model being loaded, or None
    tensor_count, \* number of tensors of the part
    loaded,       \* number of tensors loaded so far
    events,       \* LoadProgress events delivered so far
    result        \* Err(LoadError) once the load has failed, or None

tagVars  == <<value, code, into, tried, back, shown, dflt>>
errVars  == <<errIn, errOut>>
loadVars == <<pc, found, ftype, decoded, file_type, tensor_count, loaded,
              events, result>>
vars     == <<tagVars, errVars, loadVars>>

(***************************************************************************)
(* Bounds                                                                  *)
(***************************************************************************)
CodeSpan     == 12   \* try_from is tried on every i32 in -CodeSpan..CodeSpan
MaxPathLen   == 2    \* longest path, in components
MaxIoErrors  == 3    \* number of distinct std::io::Error values
MaxTensors   == 3    \* largest tensor_count of a part

(***************************************************************************)
(* Result<T, E> and "not computed yet"                                     *)
(***************************************************************************)
None   == [tag |-> "None"]
Ok(v)  == [tag |-> "Ok", val |-> v]
Err(e) == [tag |-> "Err", err |-> e]
Unit   == "()"

(***************************************************************************)
(* i32                                                                     *)
(***************************************************************************)
I32Max == 2147483647
I32Min == (0 - I32Max) - 1
IsI32(i) == i \in I32Min..I32Max

\* The i32 values try_from is applied to: a window around the valid codes,
\* the header value 99, and both ends of the i32 range.
Codes ==
    { i \in ((0 - CodeSpan)..CodeSpan)
             \cup {99, I32Min, I32Min + 1, I32Max - 1, I32Max} : IsI32(i) }

(***************************************************************************)
(* enum FileType, in declaration order                                     *)
(***************************************************************************)
FileTypeDecl ==
    << "F32", "MostlyF16", "MostlyQ4_0", "MostlyQ4_1", "MostlyQ4_2",
       "MostlyQ4_3", "MostlyQ5_0", "MostlyQ5_1", "MostlyQ8_0", "MostlyQ8_1" >>

FileType == { FileTypeDecl[k] : k \in 1..Len(FileTypeDecl) }

\* The identifier of each variant, character by character.
Ident(t) ==
    CASE t = "F32"        -> << "F", "3", "2" >>
      [] t = "MostlyF16"  -> << "M", "o", "s", "t", "l", "y", "F", "1", "6" >>
      [] t = "MostlyQ4_0" -> << "M", "o", "s", "t", "l", "y", "Q", "4", "_", "0" >>
      [] t = "MostlyQ4_1" -> << "M", "o", "s", "t", "l", "y", "Q", "4", "_", "1" >>
      [] t = "MostlyQ4_2" -> << "M", "o", "s", "t", "l", "y", "Q", "4", "_", "2" >>
      [] t = "MostlyQ4_3" -> << "M", "o", "s", "t", "l", "y", "Q", "4", "_", "3" >>
      [] t = "MostlyQ5_0" -> << "M", "o", "s", "t", "l", "y", "Q", "5", "_", "0" >>
      [] t = "MostlyQ5_1" -> << "M", "o", "s", "t", "l", "y", "Q", "5", "_", "1" >>
      [] t = "MostlyQ8_0" -> << "M", "o", "s", "t", "l", "y", "Q", "8", "_", "0" >>
      [] t = "MostlyQ8_1" -> << "M", "o", "s", "t", "l", "y", "Q", "8", "_", "1" >>

\* #[default] on MostlyF16, with #[derive(Default)]
FileTypeDefault == "MostlyF16"

\* impl From<FileType> for i32
FromSwapped(v) ==
    CASE v = "F32"        -> 0
      [] v = "MostlyF16"  -> 1
      [] v = "MostlyQ4_0" -> 2
      [] v = "MostlyQ4_1" -> 3
      [] v = "MostlyQ4_2" -> 4
      [] v = "MostlyQ4_3" -> 5
      [] v = "MostlyQ5_0" -> 6
      [] v = "MostlyQ5_1" -> 7
      [] v = "MostlyQ8_0" -> 9
      [] v = "MostlyQ8_1" -> 8
FromDuplicate(v) ==
    CASE v = "F32"        -> 0
      [] v = "MostlyF16"  -> 1
      [] v = "MostlyQ4_0" -> 2
      [] v = "MostlyQ4_1" -> 3
      [] v = "MostlyQ4_2" -> 4
      [] v = "MostlyQ4_3" -> 5
      [] v = "MostlyQ5_0" -> 6
      [] v = "MostlyQ5_1" -> 7
      [] v = "MostlyQ8_0" -> 8
      [] v = "MostlyQ8_1" -> 8
From(v) ==
    CASE v = "F32"        -> 0
      [] v = "MostlyF16"  -> 1
      [] v = "MostlyQ4_0" -> 2
      [] v = "MostlyQ4_1" -> 3
      [] v = "MostlyQ4_2" -> 4
      [] v = "MostlyQ4_3" -> 5
      [] v = "MostlyQ5_0" -> 6
      [] v = "MostlyQ5_1" -> 7
      [] v = "MostlyQ8_0" -> 8
      [] v = "MostlyQ8_1" -> 9

\* impl TryFrom<i32> for FileType, with Error = ()
TryFromClamped(v) ==
    CASE v = 0 -> Ok("F32")
      [] v = 1 -> Ok("MostlyF16")
      [] v = 2 -> Ok("MostlyQ4_0")
      [] v = 3 -> Ok("MostlyQ4_1")
      [] v = 4 -> Ok("MostlyQ4_2")
      [] v = 5 -> Ok("MostlyQ4_3")
      [] v = 6 -> Ok("MostlyQ5_0")
      [] v = 7 -> Ok("MostlyQ5_1")
      [] v = 8 -> Ok("MostlyQ8_0")
      [] v = 9 -> Ok("MostlyQ8_1")
      [] v < 0 -> Ok("F32")
      [] OTHER -> Ok("MostlyQ8_1")
TryFromModulo(v) ==
    CASE v % 10 = 0 -> Ok("F32")
      [] v % 10 = 1 -> Ok("MostlyF16")
      [] v % 10 = 2 -> Ok("MostlyQ4_0")
      [] v % 10 = 3 -> Ok("MostlyQ4_1")
      [] v % 10 = 4 -> Ok("MostlyQ4_2")
      [] v % 10 = 5 -> Ok("MostlyQ4_3")
      [] v % 10 = 6 -> Ok("MostlyQ5_0")
      [] v % 10 = 7 -> Ok("MostlyQ5_1")
      [] v % 10 = 8 -> Ok("MostlyQ8_0")
      [] v % 10 = 9 -> Ok("MostlyQ8_1")
      [] OTHER -> Err(Unit)
TryFromDefaulting(v) ==
    CASE v = 0 -> Ok("F32")
      [] v = 1 -> Ok("MostlyF16")
      [] v = 2 -> Ok("MostlyQ4_0")
      [] v = 3 -> Ok("MostlyQ4_1")
      [] v = 4 -> Ok("MostlyQ4_2")
      [] v = 5 -> Ok("MostlyQ4_3")
      [] v = 6 -> Ok("MostlyQ5_0")
      [] v = 7 -> Ok("MostlyQ5_1")
      [] v = 8 -> Ok("MostlyQ8_0")
      [] v = 9 -> Ok("MostlyQ8_1")
      [] OTHER -> Ok("MostlyF16")
TryFrom(v) ==
    CASE v = 0 -> Ok("F32")
      [] v = 1 -> Ok("MostlyF16")
      [] v = 2 -> Ok("MostlyQ4_0")
      [] v = 3 -> Ok("MostlyQ4_1")
      [] v = 4 -> Ok("MostlyQ4_2")
      [] v = 5 -> Ok("MostlyQ4_3")
      [] v = 6 -> Ok("MostlyQ5_0")
      [] v = 7 -> Ok("MostlyQ5_1")
      [] v = 8 -> Ok("MostlyQ8_0")
      [] v = 9 -> Ok("MostlyQ8_1")
      [] OTHER -> Err(Unit)

\* impl Display for FileType: the characters written to the formatter
DisplayUpper(t) ==
    CASE t = "F32"        -> << "F", "3", "2" >>
      [] t = "MostlyF16"  -> << "f", "1", "6" >>
      [] t = "MostlyQ4_0" -> << "q", "4", "_", "0" >>
      [] t = "MostlyQ4_1" -> << "q", "4", "_", "1" >>
      [] t = "MostlyQ4_2" -> << "q", "4", "_", "2" >>
      [] t = "MostlyQ4_3" -> << "q", "4", "_", "3" >>
      [] t = "MostlyQ5_0" -> << "q", "5", "_", "0" >>
      [] t = "MostlyQ5_1" -> << "q", "5", "_", "1" >>
      [] t = "MostlyQ8_0" -> << "q", "8", "_", "0" >>
      [] t = "MostlyQ8_1" -> << "q", "8", "_", "1" >>
DisplayCopyPaste(t) ==
    CASE t = "F32"        -> << "f", "3", "2" >>
      [] t = "MostlyF16"  -> << "f", "1", "6" >>
      [] t = "MostlyQ4_0" -> << "q", "4", "_", "0" >>
      [] t = "MostlyQ4_1" -> << "q", "4", "_", "1" >>
      [] t = "MostlyQ4_2" -> << "q", "4", "_", "2" >>
      [] t = "MostlyQ4_3" -> << "q", "4", "_", "3" >>
      [] t = "MostlyQ5_0" -> << "q", "5", "_", "0" >>
      [] t = "MostlyQ5_1" -> << "q", "5", "_", "1" >>
      [] t = "MostlyQ8_0" -> << "q", "8", "_", "0" >>
      [] t = "MostlyQ8_1" -> << "q", "8", "_", "0" >>
Display(t) ==
    CASE t = "F32"        -> << "f", "3", "2" >>
      [] t = "MostlyF16"  -> << "f", "1", "6" >>
      [] t = "MostlyQ4_0" -> << "q", "4", "_", "0" >>
      [] t = "MostlyQ4_1" -> << "q", "4", "_", "1" >>
      [] t = "MostlyQ4_2" -> << "q", "4", "_", "2" >>
      [] t = "MostlyQ4_3" -> << "q", "4", "_", "3" >>
      [] t = "MostlyQ5_0" -> << "q", "5", "_", "0" >>
      [] t = "MostlyQ5_1" -> << "q", "5", "_", "1" >>
      [] t = "MostlyQ8_0" -> << "q", "8", "_", "0" >>
      [] t = "MostlyQ8_1" -> << "q", "8", "_", "1" >>

(***************************************************************************)
(* The FileType conversions, applied to inputs drawn by the initial state  *)
(***************************************************************************)
TagIdle ==
    /\ value = "F32"
    /\ code = 0
    /\ into = None
    /\ tried = None
    /\ back = None
    /\ shown = None
    /\ dflt = None

TagInit ==
    /\ value \in FileType
    /\ code \in Codes
    /\ into = None
    /\ tried = None
    /\ back = None
    /\ shown = None
    /\ dflt = None

\* i32::from(value)
CallFrom ==
    /\ into' = Ok(From(value))
    /\ UNCHANGED <<value, code, tried, back, shown, dflt>>
    /\ UNCHANGED <<errVars, loadVars>>

\* FileType::try_from(code)
CallTryFrom ==
    /\ tried' = TryFrom(code)
    /\ UNCHANGED <<value, code, into, back, shown, dflt>>
    /\ UNCHANGED <<errVars, loadVars>>

\* FileType::try_from(i32::from(value))
CallRoundTrip ==
    /\ back' = TryFrom(From(value))
    /\ UNCHANGED <<value, code, into, tried, shown, dflt>>
    /\ UNCHANGED <<errVars, loadVars>>

\* format!("{}", value)
CallDisplay ==
    /\ shown' = Ok(Display(value))
    /\ UNCHANGED <<value, code, into, tried, back, dflt>>
    /\ UNCHANGED <<errVars, loadVars>>

\* FileType::default()
CallDefault ==
    /\ dflt' = Ok(FileTypeDefault)
    /\ UNCHANGED <<value, code, into, tried, back, shown>>
    /\ UNCHANGED <<errVars, loadVars>>

(***************************************************************************)
(* Paths and I/O errors                                                    *)
(***************************************************************************)
PathComponents == {"a", "b"}

\* PathBuf: a sequence of components; the empty path has no parent.
Paths == UNION { [1..n -> PathComponents] : n \in 0..MaxPathLen }

\* std::io::Error is opaque: each value is told apart by its identity.
IoErrors == { [io |-> k] : k \in 1..MaxIoErrors }

(***************************************************************************)
(* enum FindAllModelFilesError, as matched by the conversion               *)
(***************************************************************************)
FindNoParentPath(path) ==
    [type |-> "FindAllModelFilesError", variant |-> "NoParentPath", path |-> path]

FindIO(err) ==
    [type |-> "FindAllModelFilesError", variant |-> "IO", f0 |-> err]

FindAllModelFilesError ==
    { FindNoParentPath(p) : p \in Paths } \cup { FindIO(e) : e \in IoErrors }

(***************************************************************************)
(* enum LoadError                                                          *)
(***************************************************************************)
LoadErrorVariants ==
    { "OpenFileFailed", "NoParentPath", "ReadExactFailed", "Io", "InvalidUtf8",
      "InvalidIntegerConversion", "UnsupportedFileType", "InvalidMagic",
      "InvalidFormatVersion", "HyperparametersF16Invalid", "UnknownTensor",
      "TensorWrongSize", "UnsupportedElementType", "InvariantBroken",
      "ModelNotCreated", "MultipartNotSupported" }

OpenFileFailed(source, path) ==
    [type |-> "LoadError", variant |-> "OpenFileFailed", source |-> source,
     path |-> path]

NoParentPath(path) ==
    [type |-> "LoadError", variant |-> "NoParentPath", path |-> path]

Io(err) ==
    [type |-> "LoadError", variant |-> "Io", f0 |-> err]

UnsupportedFileType(i) ==
    [type |-> "LoadError", variant |-> "UnsupportedFileType", f0 |-> i]

HyperparametersF16Invalid(i) ==
    [type |-> "LoadError", variant |-> "HyperparametersF16Invalid", ftype |-> i]

ModelNotCreated(path) ==
    [type |-> "LoadError", variant |-> "ModelNotCreated", path |-> path]

MultipartNotSupported(paths) ==
    [type |-> "LoadError", variant |-> "MultipartNotSupported", paths |-> paths]

\* impl From<FindAllModelFilesError> for LoadError
FromFindAllWrongVariant(v) ==
    CASE v.variant = "NoParentPath" -> NoParentPath(v.path)
      [] v.variant = "IO"           -> OpenFileFailed(v.f0, << >>)
FromFindAllParent(v) ==
    CASE v.variant = "NoParentPath" ->
             NoParentPath(SubSeq(v.path, 1, Len(v.path) - 1))
      [] v.variant = "IO"           -> Io(v.f0)
FromFindAll(v) ==
    CASE v.variant = "NoParentPath" -> NoParentPath(v.path)
      [] v.variant = "IO"           -> Io(v.f0)

(***************************************************************************)
(* The absorption, applied to two errors drawn by the initial state        *)
(***************************************************************************)
Slots == 1..2

ErrIdle ==
    /\ errIn = [k \in Slots |-> FindNoParentPath(<< >>)]
    /\ errOut = [k \in Slots |-> None]

ErrInit ==
    /\ errIn \in [Slots -> FindAllModelFilesError]
    /\ errOut = [k \in Slots |-> None]

\* LoadError::from(errIn[k])
Absorb(k) ==
    /\ errOut' = [errOut EXCEPT ![k] = Ok(FromFindAll(errIn[k]))]
    /\ UNCHANGED errIn
    /\ UNCHANGED <<tagVars, loadVars>>

(***************************************************************************)
(* enum LoadProgress                                                       *)
(***************************************************************************)
HyperparametersLoaded(hparams) ==
    [event |-> "HyperparametersLoaded", f0 |-> hparams]

ContextSize(bytes) ==
    [event |-> "ContextSize", bytes |-> bytes]

PartLoading(file, current_part, total_parts) ==
    [event |-> "PartLoading", file |-> file, current_part |-> current_part,
     total_parts |-> total_parts]

PartTensorLoaded(file, current_tensor, count) ==
    [event |-> "PartTensorLoaded", file |-> file,
     current_tensor |-> current_tensor, tensor_count |-> count]

PartLoaded(file, byte_size, count) ==
    [event |-> "PartLoaded", file |-> file, byte_size |-> byte_size,
     tensor_count |-> count]

(***************************************************************************)
(* The sequential loading pipeline that produces the events and the errors *)
(***************************************************************************)
\* Outcomes of file discovery: one file, several files, or a failure.
Discovered ==
    { Ok(<< p >>) : p \in Paths \ {<< >>} }
        \cup { Ok(<< p, q >>) : p \in Paths \ {<< >>}, q \in Paths \ {<< >>} }
        \cup { Err(e) : e \in FindAllModelFilesError }

\* Decoding of the header's storage-format field: a failure of try_from
\* becomes UnsupportedFileType carrying the raw integer.
DecodeFileType(i) ==
    LET r == TryFrom(i)
    IN  IF r.tag = "Ok" THEN r ELSE Err(UnsupportedFileType(i))

Hyperparameters(t) == [file_type |-> t]

File == found.val[1]

LoadIdle ==
    /\ pc = "start"
    /\ found = Ok(<< << "a" >> >>)
    /\ ftype = 1
    /\ decoded = None
    /\ file_type = None
    /\ tensor_count = 0
    /\ loaded = 0
    /\ events = << >>
    /\ result = None

LoadInit ==
    /\ pc = "start"
    /\ found \in Discovered
    /\ ftype \in Codes
    /\ decoded = None
    /\ file_type = None
    /\ tensor_count \in 0..MaxTensors
    /\ loaded = 0
    /\ events = << >>
    /\ result = None

\* File discovery; its failure is absorbed, several files are rejected.
FindAllModelFiles ==
    /\ pc = "start"
    /\ IF found.tag = "Err"
         THEN /\ result' = Err(FromFindAll(found.err))
              /\ pc' = "failed"
         ELSE IF Len(found.val) > 1
                THEN /\ result' = Err(MultipartNotSupported(found.val))
                     /\ pc' = "failed"
                ELSE /\ result' = result
                     /\ pc' = "header"
    /\ UNCHANGED <<found, ftype, decoded, file_type, tensor_count, loaded,
                   events>>
    /\ UNCHANGED <<tagVars, errVars>>

\* The header is read and its storage-format field decoded.
LoadHyperparameters ==
    /\ pc = "header"
    /\ decoded' = DecodeFileType(ftype)
    /\ IF decoded'.tag = "Ok"
         THEN /\ file_type' = decoded'
              /\ events' = Append(events,
                     HyperparametersLoaded(Hyperparameters(decoded'.val)))
              /\ result' = result
              /\ pc' = "context"
         ELSE /\ file_type' = file_type
              /\ events' = events
              /\ result' = decoded'
              /\ pc' = "failed"
    /\ UNCHANGED <<found, ftype, tensor_count, loaded>>
    /\ UNCHANGED <<tagVars, errVars>>

\* The context is created.
CreateContext ==
    /\ pc = "context"
    /\ events' = Append(events, ContextSize(tensor_count))
    /\ pc' = "part"
    /\ UNCHANGED <<found, ftype, decoded, file_type, tensor_count, loaded,
                   result>>
    /\ UNCHANGED <<tagVars, errVars>>

\* The single part starts loading.
BeginPart ==
    /\ pc = "part"
    /\ events' = Append(events, PartLoading(File, 0, 1))
    /\ pc' = "tensors"
    /\ UNCHANGED <<found, ftype, decoded, file_type, tensor_count, loaded,
                   result>>
    /\ UNCHANGED <<tagVars, errVars>>

\* The next tensor of the part is loaded.
LoadTensorOneBased ==
    /\ pc = "tensors"
    /\ loaded < tensor_count
    /\ events' = Append(events,
           PartTensorLoaded(File, loaded + 1, tensor_count))
    /\ loaded' = loaded + 1
    /\ UNCHANGED <<pc, found, ftype, decoded, file_type, tensor_count, result>>
    /\ UNCHANGED <<tagVars, errVars>>
LoadTensor ==
    /\ pc = "tensors"
    /\ loaded < tensor_count
    /\ events' = Append(events, PartTensorLoaded(File, loaded, tensor_count))
    /\ loaded' = loaded + 1
    /\ UNCHANGED <<pc, found, ftype, decoded, file_type, tensor_count, result>>
    /\ UNCHANGED <<tagVars, errVars>>

\* All tensors are loaded; a part without tensors creates no model.
FinishPart ==
    /\ pc = "tensors"
    /\ loaded = tensor_count
    /\ IF tensor_count = 0
         THEN /\ result' = Err(ModelNotCreated(File))
              /\ events' = events
              /\ pc' = "failed"
         ELSE /\ result' = result
              /\ events' = Append(events,
                     PartLoaded(File, tensor_count, tensor_count))
              /\ pc' = "done"
    /\ UNCHANGED <<found, ftype, decoded, file_type, tensor_count, loaded>>
    /\ UNCHANGED <<tagVars, errVars>>

\* Any read may fail; the load is abandoned at once.
IoFailure ==
    /\ pc \in {"header", "context", "part", "tensors"}
    /\ \E e \in IoErrors : result' = Err(Io(e))
    /\ pc' = "failed"
    /\ UNCHANGED <<found, ftype, decoded, file_type, tensor_count, loaded,
                   events>>
    /\ UNCHANGED <<tagVars, errVars>>

(***************************************************************************)
(* Specifications                                                          *)
(***************************************************************************)
Init == TagInit /\ ErrIdle /\ LoadIdle

Next ==
    \/ CallFrom
    \/ CallTryFrom
    \/ CallRoundTrip
    \/ CallDisplay
    \/ CallDefault

Spec == Init /\ [][Next]_vars

InitErr == TagIdle /\ ErrInit /\ LoadIdle

NextErr == \E k \in Slots : Absorb(k)

SpecErr == InitErr /\ [][NextErr]_vars

InitLoad == TagIdle /\ ErrIdle /\ LoadInit

NextLoad ==
    \/ FindAllModelFiles
    \/ LoadHyperparameters
    \/ CreateContext
    \/ BeginPart
    \/ LoadTensor
    \/ FinishPart
    \/ IoFailure

SpecLoad == InitLoad /\ [][NextLoad]_vars

(***************************************************************************)
(* Properties of the FileType conversions (checked under Spec)             *)
(***************************************************************************)
VariantCount == Len(FileTypeDecl)

\* Zero-based position of a variant in the enum declaration.
DeclIndex(t) == (CHOOSE k \in 1..Len(FileTypeDecl) : FileTypeDecl[k] = t) - 1

\* C1: round trip: for every FileType value t,
\* FileType::try_from(i32::from(t)) returns Ok(t).
C1_RoundTrip == back # None => back = Ok(value)

C1_Witness == back # None /\ value = "MostlyQ8_1"

\* C2: failure law: for every i32 i with i < 0 or i >= 10, the extremes of
\* the i32 range included, FileType::try_from(i) returns the error and no tag.
C2_OutOfRangeFails ==
    (tried # None /\ (code < 0 \/ code >= 10)) =>
        /\ tried = Err(Unit)
        /\ \A t \in FileType : tried # Ok(t)

C2_Witness ==
    /\ tried # None
    /\ code \in {I32Min, I32Max, -1, 10}

\* C3: density and declaration index: i32::from maps each FileType value to
\* its zero-based position in the declaration, and the image of i32::from
\* over the ten values is exactly 0..9, no two values sharing a code.
C3_DenseDeclarationIndex ==
    into # None =>
        /\ into = Ok(DeclIndex(value))
        /\ VariantCount = 10
        /\ { From(t) : t \in FileType } = 0..9
        /\ \A t, u \in FileType : From(t) = From(u) => t = u

C3_Witness == into = Ok(9) /\ value = "MostlyQ8_1"

LowercaseDigitsUnderscore ==
    { "a", "b", "c", "d", "e", "f", "g", "h", "i", "j", "k", "l", "m",
      "n", "o", "p", "q", "r", "s", "t", "u", "v", "w", "x", "y", "z",
      "0", "1", "2", "3", "4", "5", "6", "7", "8", "9", "_" }

\* C7: Display gives every FileType value a non-empty name made only of
\* lowercase letters, digits and underscore, and no two different values
\* have the same name.
C7_DisplayDistinct ==
    shown # None =>
        /\ Len(shown.val) > 0
        /\ \A k \in 1..Len(shown.val) :
               shown.val[k] \in LowercaseDigitsUnderscore
        /\ \A t \in FileType : Display(t) = shown.val => t = value

C7_Witness == shown # None /\ value = "MostlyQ5_1"

\* A block-quantized variant is named MostlyQ<b>_<v>.
IsBlockQuantized(t) ==
    /\ Len(Ident(t)) = 10
    /\ SubSeq(Ident(t), 1, 7) = << "M", "o", "s", "t", "l", "y", "Q" >>
    /\ Ident(t)[9] = "_"

\* The name the scheme gives: f32, f16, or q<b>_<v> with the b and v of the
\* variant's own identifier.
SchemeName(t) ==
    IF IsBlockQuantized(t)
      THEN << "q", Ident(t)[8], "_", Ident(t)[10] >>
      ELSE IF t = "F32" THEN << "f", "3", "2" >> ELSE << "f", "1", "6" >>

\* The names listed in increasing order of i32::from.
NamesByCode ==
    [ k \in 1..VariantCount |->
        Display(CHOOSE t \in FileType : From(t) = k - 1) ]

\* C8: F32 renders as f32, MostlyF16 as f16, every MostlyQ<b>_<v> as
\* q<b>_<v>; listed by increasing i32::from the names are f32, f16, q4_0,
\* q4_1, q4_2, q4_3, q5_0, q5_1, q8_0, q8_1.
C8_DisplayScheme ==
    shown # None =>
        /\ shown.val = SchemeName(value)
        /\ \A t \in FileType \ {"F32", "MostlyF16"} : IsBlockQuantized(t)
        /\ NamesByCode =
             << << "f", "3", "2" >>, << "f", "1", "6" >>,
                << "q", "4", "_", "0" >>, << "q", "4", "_", "1" >>,
                << "q", "4", "_", "2" >>, << "q", "4", "_", "3" >>,
                << "q", "5", "_", "0" >>, << "q", "5", "_", "1" >>,
                << "q", "8", "_", "0" >>, << "q", "8", "_", "1" >> >>

C8_Witness == shown # None /\ IsBlockQuantized(value) /\ value = "MostlyQ4_3"

\* C9: the default FileType is MostlyF16 (code 1), and try_from(i) returns
\* Ok(FileType::default()) if and only if i = 1.
C9_DefaultNeverFallback ==
    /\ dflt # None => (dflt = Ok("MostlyF16") /\ From(dflt.val) = 1)
    /\ (tried # None /\ dflt # None) => ((tried = dflt) <=> (code = 1))

C9_Witness == dflt # None /\ tried = dflt

(***************************************************************************)
(* Properties of the absorption (checked under SpecErr)                    *)
(***************************************************************************)
\* C5: the conversion is total: NoParentPath always maps to
\* LoadError::NoParentPath and IO always maps to LoadError::Io, so none of
\* the other fourteen LoadError variants can be the result.
C5_AbsorptionExhaustive ==
    \A k \in Slots :
        errOut[k] # None =>
            /\ errOut[k].tag = "Ok"
            /\ errOut[k].val.type = "LoadError"
            /\ errOut[k].val.variant \in LoadErrorVariants
            /\ errIn[k].variant = "NoParentPath" =>
                   errOut[k].val.variant = "NoParentPath"
            /\ errIn[k].variant = "IO" => errOut[k].val.variant = "Io"
            /\ Cardinality(LoadErrorVariants \ {"NoParentPath", "Io"}) = 14
            /\ errOut[k].val.variant \notin
                   LoadErrorVariants \ {"NoParentPath", "Io"}

C5_Witness ==
    /\ errOut[1] # None /\ errIn[1].variant = "NoParentPath"
    /\ errOut[2] # None /\ errIn[2].variant = "IO"

\* C6: the conversion keeps the payload: the path of the resulting
\* NoParentPath is the input's path, the cause of the resulting Io is the
\* input's I/O error; two different errors never convert to the same
\* LoadError.
C6_AbsorptionLossless ==
    /\ \A k \in Slots :
           errOut[k] # None =>
               /\ errIn[k].variant = "NoParentPath" =>
                      errOut[k].val = NoParentPath(errIn[k].path)
               /\ errIn[k].variant = "IO" => errOut[k].val = Io(errIn[k].f0)
    /\ (errOut[1] # None /\ errOut[2] # None /\ errIn[1] # errIn[2]) =>
           errOut[1] # errOut[2]

C6_Witness ==
    /\ errOut[1] # None /\ errOut[2] # None
    /\ errIn[1].variant = "NoParentPath" /\ errIn[2].variant = "NoParentPath"
    /\ Len(errIn[1].path) = 2
    /\ errIn[2].path = SubSeq(errIn[1].path, 1, 1)

(***************************************************************************)
(* Properties of the loading pipeline (checked under SpecLoad)             *)
(***************************************************************************)
\* C4: decoding the header integer 99 for the storage-format field yields
\* the LoadError UnsupportedFileType(99) carrying the raw integer 99, and no
\* tag, default or other.
C4_Unsupported99 ==
    (ftype = 99 /\ decoded # None) =>
        /\ decoded = Err(UnsupportedFileType(99))
        /\ decoded.err.f0 = 99
        /\ result = decoded
        /\ pc = "failed"
        /\ file_type = None

C4_Witness == ftype = 99 /\ decoded # None

IsPrefix(s, t) == Len(s) <= Len(t) /\ s = SubSeq(t, 1, Len(s))

EventsNamed(name) == { k \in 1..Len(events) : events[k].event = name }

\* The current_tensor values of the PartTensorLoaded events, in order.
TensorIndices ==
    LET Pick[k \in 0..Len(events)] ==
            IF k = 0 THEN << >>
            ELSE IF events[k].event = "PartTensorLoaded"
                   THEN Append(Pick[k - 1], events[k].current_tensor)
                   ELSE Pick[k - 1]
    IN  Pick[Len(events)]

\* C10: in the event sequence of a single-part load, HyperparametersLoaded,
\* ContextSize, PartLoading and PartLoaded each occur exactly once and in
\* that order, every PartTensorLoaded lies between PartLoading and
\* PartLoaded, and the current_tensor values are 0, 1, ..., tensor_count-1 in
\* increasing order, tensor_count being the same in every event of the part.
\* While the load runs, or once it is abandoned, the events are a prefix of
\* that sequence.
C10_ProgressOrdering ==
    /\ \A name \in {"HyperparametersLoaded", "ContextSize", "PartLoading",
                    "PartLoaded"} : Cardinality(EventsNamed(name)) <= 1
    /\ \A k \in 1..Len(events) :
           /\ events[k].event = "HyperparametersLoaded" => k = 1
           /\ events[k].event = "ContextSize" => k = 2
           /\ events[k].event = "PartLoading" => k = 3
           /\ events[k].event = "PartTensorLoaded" =>
                  /\ k > 3
                  /\ events[k].tensor_count = tensor_count
                  /\ \A j \in 1..Len(events) :
                         events[j].event = "PartLoaded" => k < j
           /\ events[k].event = "PartLoaded" =>
                  /\ k = Len(events)
                  /\ events[k].tensor_count = tensor_count
    /\ IsPrefix(TensorIndices, [k \in 1..tensor_count |-> k - 1])
    /\ pc = "done" =>
           /\ \A name \in {"HyperparametersLoaded", "ContextSize",
                           "PartLoading", "PartLoaded"} :
                  Cardinality(EventsNamed(name)) = 1
           /\ TensorIndices = [k \in 1..tensor_count |-> k - 1]
           /\ Len(events) = tensor_count + 4

C10_Witness == pc = "done" /\ tensor_count = MaxTensors

====
